---------------------------- MODULE Spec2Model ----------------------------
(* State-machine model of django-user-profiles:                            *)
(*   user_profiles/activation/models.py  (ActivationCode, post_signup hook) *)
(*   user_profiles/views.py              (the request handlers)             *)
(* The database is the three tables users / profiles / codes.  Every       *)
(* request handler is one action; what the handler did during the request  *)
(* (ORM writes, flash messages, signals, the final return or raise) is     *)
(* written to `trace`, and the value it returned or raised to `response`.  *)
(* Two specifications share the state: SpecSignup holds the operations     *)
(* that write users and activation codes (signup, ActivationCode.save,      *)
(* activation) on a fresh installation, SpecViews the profile and password  *)
(* views on a site in use.                                                  *)
EXTENDS Integers, Sequences, FiniteSets, TLC

VARIABLES
    PUBLIC,                 \* app_settings.PUBLIC
    PUBLIC_WHEN_LOGGED_IN,  \* app_settings.PUBLIC_WHEN_LOGGED_IN
    users,                  \* auth.User table: id -> [is_active, is_staff, perm]
    profiles,               \* profile table: user id -> stored profile data
    codes,                  \* ActivationCode table: pk -> [key, user, activated]
    request,                \* the request being answered (inputs of the handler)
    trace,                  \* what the handler did, in order
    response                \* what the handler returned or raised

vars == <<PUBLIC, PUBLIC_WHEN_LOGGED_IN, users, profiles, codes,
          request, trace, response>>

-----------------------------------------------------------------------------
(* Bounds of the model *)

\* at most this many users are ever created by signup
MaxSignups == 2

\* at most this many ActivationCode rows are ever stored
MaxCodes == 2

\* the values uuid.uuid4().hex can return (a finite stand-in for 2^122 values)
Tokens == {"k1", "k2"}

-----------------------------------------------------------------------------
(* Data *)

\* the empty CharField value: `not self.key` is true exactly for it
NoKey == ""

\* request.user of a request without a session (AnonymousUser)
Anonymous == 0

\* the users of a fresh installation: the administrator made by
\* createsuperuser (staff, every permission, no profile row)
InitialUsers ==
    (1 :> [is_active |-> TRUE, is_staff |-> TRUE, perm |-> TRUE])

InitialProfiles == << >>

\* the users of a site in use, one of each kind the views tell apart:
\*   1 staff with auth.change_user, no profile row
\*   2 ordinary user with a profile
\*   3 staff without the permission, with a profile
\*   4 non-staff holding the permission, no profile row
SiteUsers ==
    (1 :> [is_active |-> TRUE, is_staff |-> TRUE,  perm |-> TRUE])  @@
    (2 :> [is_active |-> TRUE, is_staff |-> FALSE, perm |-> FALSE]) @@
    (3 :> [is_active |-> TRUE, is_staff |-> TRUE,  perm |-> FALSE]) @@
    (4 :> [is_active |-> TRUE, is_staff |-> FALSE, perm |-> TRUE])

SiteProfiles == (2 :> "blank") @@ (3 :> "blank")

NumInitialUsers == Cardinality(DOMAIN InitialUsers)

Max(S) == IF S = {} THEN 0 ELSE CHOOSE m \in S : \A x \in S : x <= m

\* f without the keys in D
Without(f, D) == [x \in (DOMAIN f) \ D |-> f[x]]

Ev(name, user, arg) == [ev |-> name, user |-> user, arg |-> arg]

HttpResponseRedirect(url) == [kind |-> "redirect", arg |-> url]
render_to_response(template) == [kind |-> "render", arg |-> template]
Raise(exc) == [kind |-> "raise", arg |-> exc]

Return(resp) == Ev("return", 0, resp.kind)

\* request.user.is_authenticated()
is_authenticated(u) == u # Anonymous

\* request.user.is_staff (False for AnonymousUser)
is_staff(us, u) == u \in DOMAIN us /\ us[u].is_staff

\* request.user.has_perm('auth.change_user') (False for AnonymousUser and
\* for inactive users)
has_perm(us, u) == u \in DOMAIN us /\ us[u].is_active /\ us[u].perm

\* the flash messages of a trace, in order
Messages(tr) == SelectSeq(tr, LAMBDA e : e.ev = "message")

Count(tr, name) == Len(SelectSeq(tr, LAMBDA e : e.ev = name))

\* position of the first event called name, 0 when there is none
IndexOf(tr, name) ==
    IF \E i \in 1..Len(tr) : tr[i].ev = name
    THEN CHOOSE i \in 1..Len(tr) :
            tr[i].ev = name /\ \A j \in 1..(i-1) : tr[j].ev # name
    ELSE 0

-----------------------------------------------------------------------------
(* ActivationCode (activation/models.py) *)

\* ActivationCode(user=u, key=k): an unsaved instance, pk None (0 here),
\* activated from the field default
ActivationCode(u, k) == [pk |-> 0, key |-> k, user |-> u, activated |-> FALSE]

\* the test of line 20 inverted (`if self.key`)
KeyAbsent_inverted(self) == self.key # NoKey

\* line 20: `if not self.key`
KeyAbsent(self) == self.key = NoKey

\* lines 19-21: the instance as save() hands it to Model.save; tok is the
\* value uuid.uuid4().hex returns
ActivationCode_key(self, tok) ==
    IF KeyAbsent(self) THEN [self EXCEPT !.key = tok] ELSE self

\* line 22: Model.save - INSERT with the next pk when pk is None, else UPDATE
Model_save(cs, inst) ==
    LET pk == IF inst.pk = 0 THEN Max(DOMAIN cs) + 1 ELSE inst.pk
        row == [key |-> inst.key, user |-> inst.user, activated |-> inst.activated]
    IN  IF pk \in DOMAIN cs THEN [cs EXCEPT ![pk] = row] ELSE cs @@ (pk :> row)

\* ActivationCode.save(): the table after self.save()
ActivationCode_save(cs, self, tok) == Model_save(cs, ActivationCode_key(self, tok))

\* the stored row pk as a model instance
Stored(cs, pk) ==
    [pk |-> pk, key |-> cs[pk].key, user |-> cs[pk].user,
     activated |-> cs[pk].activated]


-----------------------------------------------------------------------------
(* Activation (user_profiles/activation/utils.py and views.py, not part of  *)
(* the sources at hand: modelled from the specification's description)      *)

\* send_activation_link_to_user(user, created): issues the user's activation
\* code (a new ActivationCode saved without a key) and mails the link
send_activation_link_to_user(cs, user, created, tok) ==
    [codes |-> ActivationCode_save(cs, ActivationCode(user, NoKey), tok),
     trace |-> << Ev("send_activation_link_to_user", user,
                     IF created THEN "created=True" ELSE "created=False") >>]

\* presenting a stored key marks that code activated (once) and its user active
activate_code(cs, pk, tok) ==
    ActivationCode_save(cs, [Stored(cs, pk) EXCEPT !.activated = TRUE], tok)

-----------------------------------------------------------------------------
(* post_signup (activation/models.py lines 24-32) *)

\* the receiver connected at line 32, called with kwargs['user'] = user
post_signup_send_activation_link_to_new_user(cs, user, tok) ==
    send_activation_link_to_user(cs, user, TRUE, tok)

\* post_signup.send(__name__, user=new_user): a synchronous call of the one
\* connected receiver
post_signup_send(cs, new_user, tok) ==
    LET r == post_signup_send_activation_link_to_new_user(cs, new_user, tok)
    IN  [codes |-> r.codes,
         trace |-> << Ev("post_signup", new_user, "views") >> \o r.trace]

-----------------------------------------------------------------------------
(* signup (views.py lines 35-70) *)

\* what request.POST can hold
PostData == {"valid", "bad_signup", "bad_profile"}

\* SIGNUP_FORM_CLASS(request.POST).is_valid()
signup_form_is_valid(data) == data \in {"valid", "bad_profile"}

\* PROFILE_FORM_CLASS(request.POST, ...).is_valid()
profile_form_is_valid(data) == data = "valid"

\* a deletion whose cascade is not restricted to the deleted user's codes
User_delete_all_codes(us, ps, cs, u) ==
    [users    |-> Without(us, {u}),
     profiles |-> Without(ps, {u}),
     codes    |-> << >>]

\* User.delete(): the row and, through the foreign keys, its profile and its
\* activation codes
User_delete(us, ps, cs, u) ==
    [users    |-> Without(us, {u}),
     profiles |-> Without(ps, {u}),
     codes    |-> Without(cs, {pk \in DOMAIN cs : cs[pk].user = u})]

\* line 48, signup_form.save(): the new User row; its blank profile row is
\* what new_user.get_profile() returns at line 49
signup_form_save(us, ps, active) ==
    LET new_user == Max(DOMAIN us) + 1
    IN  [new_user |-> new_user,
         users    |-> us @@ (new_user :>
                        [is_active |-> active, is_staff |-> FALSE, perm |-> FALSE]),
         profiles |-> ps @@ (new_user :> "blank")]

\* lines 52-55
signup_success_message(active) ==
    IF active
    THEN "Signup was successful. You can now proceed to log in."
    ELSE "Signup was successful. Activation ist required before you can proceed to log in."

\* lines 51-57 with the signal dispatched before the profile is saved
signup_profile_valid_signal_first(s, cs, data, active, tok) ==
    LET sig  == post_signup_send(cs, s.new_user, tok)
        resp == HttpResponseRedirect("login")
    IN  [users    |-> s.users,
         profiles |-> [s.profiles EXCEPT ![s.new_user] = data],
         codes    |-> sig.codes,
         trace    |-> << Ev("user_saved", s.new_user, "signup_form") >>
                      \o sig.trace
                      \o << Ev("profile_saved", s.new_user, data),
                            Ev("message", s.new_user, signup_success_message(active)),
                            Return(resp) >>,
         response |-> resp]

\* lines 51-57: the profile form validated
signup_profile_valid(s, cs, data, active, tok) ==
    LET sig  == post_signup_send(cs, s.new_user, tok)
        resp == HttpResponseRedirect("login")
    IN  [users    |-> s.users,
         profiles |-> [s.profiles EXCEPT ![s.new_user] = data],
         codes    |-> sig.codes,
         trace    |-> << Ev("user_saved", s.new_user, "signup_form"),
                         Ev("profile_saved", s.new_user, data),
                         Ev("message", s.new_user, signup_success_message(active)) >>
                      \o sig.trace \o << Return(resp) >>,
         response |-> resp]

\* lines 58-63 without the new_user.delete() of line 61
signup_profile_invalid_keeps_user(s, cs) ==
    LET resp == Raise("Exception")
    IN  [users    |-> s.users,
         profiles |-> s.profiles,
         codes    |-> cs,
         trace    |-> << Ev("user_saved", s.new_user, "signup_form"),
                         Return(resp) >>,
         response |-> resp]

\* lines 58-63: the profile form did not validate
signup_profile_invalid(s, cs) ==
    LET d    == User_delete(s.users, s.profiles, cs, s.new_user)
        resp == Raise("Exception")
    IN  [users    |-> d.users,
         profiles |-> d.profiles,
         codes    |-> d.codes,
         trace    |-> << Ev("user_saved", s.new_user, "signup_form"),
                         Ev("user_deleted", s.new_user, "") >>
                      \o << Return(resp) >>,
         response |-> resp]

\* lines 46-63: a POST
signup_post(us, ps, cs, data, active, tok) ==
    IF signup_form_is_valid(data)
    THEN LET s == signup_form_save(us, ps, active)
         IN  IF profile_form_is_valid(data)
             THEN signup_profile_valid(s, cs, data, active, tok)
             ELSE signup_profile_invalid(s, cs)
    ELSE LET resp == render_to_response("user_profiles/signup.html")
         IN  [users |-> us, profiles |-> ps, codes |-> cs,
              trace |-> << Return(resp) >>, response |-> resp]

\* lines 43-70 without the is_authenticated test of lines 43-44
signup_without_auth_check(us, ps, cs, user, method, data, active, tok) ==
    IF method = "POST"
    THEN signup_post(us, ps, cs, data, active, tok)
    ELSE LET resp == render_to_response("user_profiles/signup.html")
         IN  [users |-> us, profiles |-> ps, codes |-> cs,
              trace |-> << Return(resp) >>, response |-> resp]

\* lines 43-70: the whole view
signup(us, ps, cs, user, method, data, active, tok) ==
    IF is_authenticated(user)
    THEN LET resp == HttpResponseRedirect("LOGIN_REDIRECT_URL")
         IN  [users |-> us, profiles |-> ps, codes |-> cs,
              trace |-> << Return(resp) >>, response |-> resp]
    ELSE IF method = "POST"
    THEN signup_post(us, ps, cs, data, active, tok)
    ELSE LET resp == render_to_response("user_profiles/signup.html")
         IN  [users |-> us, profiles |-> ps, codes |-> cs,
              trace |-> << Return(resp) >>, response |-> resp]

-----------------------------------------------------------------------------
(* Actions: activation codes and signup *)

Requesters == {Anonymous} \cup DOMAIN users

NoResponse == [kind |-> "none", arg |-> ""]

\* the handler's outcome o becomes the next state, within the bounds
SignupOutcome(o) ==
    /\ Cardinality(DOMAIN o.users) - NumInitialUsers <= MaxSignups
    /\ Cardinality(DOMAIN o.codes) <= MaxCodes
    /\ users' = o.users
    /\ profiles' = o.profiles
    /\ codes' = o.codes
    /\ trace' = o.trace
    /\ response' = o.response
    /\ UNCHANGED <<PUBLIC, PUBLIC_WHEN_LOGGED_IN>>

\* a GET of the signup view
SignupGet ==
    \E user \in Requesters :
        /\ request' = [view |-> "signup", user |-> user, method |-> "GET",
                       data |-> "none"]
        /\ SignupOutcome(signup(users, profiles, codes, user, "GET", "none",
                                TRUE, "k1"))

\* a POST to the signup view; active is the is_active of the user the signup
\* form creates, tok the value uuid4 returns should a code be issued (each
\* is fixed on the paths that do not read it)
SignupPost ==
    \E user \in Requesters, data \in PostData, active \in BOOLEAN, tok \in Tokens :
        /\ (is_authenticated(user) \/ ~signup_form_is_valid(data)) => active
        /\ (is_authenticated(user) \/ ~profile_form_is_valid(data)) => tok = "k1"
        /\ request' = [view |-> "signup", user |-> user, method |-> "POST",
                       data |-> data]
        /\ SignupOutcome(signup(users, profiles, codes, user, "POST", data,
                                active, tok))

\* ActivationCode(user=u, key=k).save() by any caller, k empty or preset
\* (tok is not read when the key is preset)
SaveNewCode ==
    \E u \in DOMAIN users, k \in {NoKey} \cup Tokens, tok \in Tokens :
        /\ Cardinality(DOMAIN codes) < MaxCodes
        /\ (k # NoKey => tok = "k1")
        /\ codes' = ActivationCode_save(codes, ActivationCode(u, k), tok)
        /\ request' = [view |-> "ActivationCode.save", pk |-> 0, key |-> k]
        /\ trace' = <<>>
        /\ response' = NoResponse
        /\ UNCHANGED <<PUBLIC, PUBLIC_WHEN_LOGGED_IN, users, profiles>>

\* save() of an instance loaded from the table
SaveStoredCode ==
    \E pk \in DOMAIN codes :
        /\ codes' = ActivationCode_save(codes, Stored(codes, pk), "k1")
        /\ request' = [view |-> "ActivationCode.save", pk |-> pk,
                       key |-> codes[pk].key]
        /\ trace' = <<>>
        /\ response' = NoResponse
        /\ UNCHANGED <<PUBLIC, PUBLIC_WHEN_LOGGED_IN, users, profiles>>

\* the activation view, called with a key: a stored code with that key that
\* is not yet activated is activated, along with its user
Activate ==
    \E key \in Tokens :
        /\ request' = [view |-> "activate", key |-> key]
        /\ trace' = <<>>
        /\ UNCHANGED <<PUBLIC, PUBLIC_WHEN_LOGGED_IN, profiles>>
        /\ \/ \E pk \in DOMAIN codes :
                /\ codes[pk].key = key
                /\ ~codes[pk].activated
                /\ codes' = activate_code(codes, pk, "k1")
                /\ users' = [users EXCEPT ![codes[pk].user].is_active = TRUE]
                /\ response' = HttpResponseRedirect("login")
           \/ /\ ~\E pk \in DOMAIN codes : codes[pk].key = key /\ ~codes[pk].activated
              /\ UNCHANGED <<users, codes>>
              /\ response' = Raise("Http404")

\* a fresh installation with the default settings
InitSignup ==
    /\ PUBLIC = FALSE
    /\ PUBLIC_WHEN_LOGGED_IN = FALSE
    /\ users = InitialUsers
    /\ profiles = InitialProfiles
    /\ codes = << >>
    /\ request = [view |-> "none"]
    /\ trace = <<>>
    /\ response = NoResponse

NextSignup ==
    SignupGet \/ SignupPost \/ SaveNewCode \/ SaveStoredCode \/ Activate

SpecSignup == InitSignup /\ [][NextSignup]_vars

\* uuid4 at its best: a key drawn at line 21 in this step differs from
\* every key stored before the step
NoCollision ==
    \A pk \in (DOMAIN codes') \ (DOMAIN codes) :
        \/ request'.view = "ActivationCode.save" /\ request'.key # NoKey
        \/ codes'[pk].key \notin {codes[q].key : q \in DOMAIN codes}

NextSignupNoCollision ==
    \/ SignupGet /\ NoCollision
    \/ SignupPost /\ NoCollision
    \/ SaveNewCode /\ NoCollision
    \/ SaveStoredCode /\ NoCollision
    \/ Activate /\ NoCollision

\* SpecSignup restricted to the behaviours in which uuid4 never returns a
\* key that is already stored
SpecSignupNoCollision == InitSignup /\ [][NextSignupNoCollision]_vars

-----------------------------------------------------------------------------
(* user_detail (views.py lines 72-99) *)

\* the lookup_value of the URL: the URL_FIELD value of a user, or a value
\* that does not convert to the field's type
Lookup(kind, id) == [kind |-> kind, id |-> id]

\* User.objects.get(**{URL_FIELD: lookup_value}): the user found, or the
\* exception raised
User_objects_get(us, lookup) ==
    IF lookup.kind = "malformed" THEN [found |-> FALSE, exc |-> "ValueError", user |-> Anonymous]
    ELSE IF lookup.id \in DOMAIN us THEN [found |-> TRUE, exc |-> "", user |-> lookup.id]
    ELSE [found |-> FALSE, exc |-> "User.DoesNotExist", user |-> Anonymous]

\* lines 72-80: get_profile() raises the profile model's DoesNotExist for a
\* user without a profile row, else the page is rendered
_user_detail(ps, user, template_name) ==
    IF user \in DOMAIN ps
    THEN LET resp == render_to_response(template_name)
         IN  [trace |-> << Ev("context", user, ps[user]), Return(resp) >>,
              response |-> resp]
    ELSE LET resp == Raise("Profile.DoesNotExist")
         IN  [trace |-> << Return(resp) >>, response |-> resp]

\* lines 90-92 with `or` for the `and` of line 92
user_detail_denied_staff_or_perm(us, pub, pwli, user) ==
    /\ ~pub
    /\ ~(pwli /\ is_authenticated(user))
    /\ ~(is_staff(us, user) \/ has_perm(us, user))

\* lines 90-92: the test that raises PermissionDenied
user_detail_denied(us, pub, pwli, user) ==
    /\ ~pub
    /\ ~(pwli /\ is_authenticated(user))
    /\ ~(is_staff(us, user) /\ has_perm(us, user))

\* lines 82-99
user_detail(us, ps, pub, pwli, user, lookup) ==
    IF user_detail_denied(us, pub, pwli, user)
    THEN LET resp == Raise("PermissionDenied")
         IN  [trace |-> << Return(resp) >>, response |-> resp]
    ELSE LET got == User_objects_get(us, lookup)
         IN  IF got.found
             THEN _user_detail(ps, got.user, "user_profiles/profile/detail.html")
             ELSE LET resp == Raise("Http404")
                  IN  [trace |-> << Return(resp) >>, response |-> resp]

-----------------------------------------------------------------------------
(* _user_change and current_user_profile_change (views.py lines 109-159) *)

\* @login_required: an anonymous requester is redirected to the login page
\* and the view is not called
login_required_redirect ==
    LET resp == HttpResponseRedirect("LOGIN_URL")
    IN  [trace |-> << Return(resp) >>, response |-> resp]

\* lines 112-116: whether the name `profile` is bound after the try
profile_bound_after_post(ps, user) == user \in DOMAIN ps

\* lines 117-123: the form is valid
_user_change_valid(ps, request_user, user, data) ==
    LET resp == IF user # request_user
                THEN HttpResponseRedirect("user_detail")
                ELSE HttpResponseRedirect("current_user_detail")
    IN  [profiles |-> IF user \in DOMAIN ps
                      THEN [ps EXCEPT ![user] = data]
                      ELSE ps @@ (user :> data),
         trace    |-> << Ev("profile_saved", user, data),
                         Ev("message", request_user, "Your changes were saved."),
                         Return(resp) >>,
         response |-> resp]

\* lines 124-125 and 134-140: the form is invalid; the context of line 136
\* reads `profile`
_user_change_invalid(ps, request_user, user) ==
    LET resp == IF profile_bound_after_post(ps, user)
                THEN render_to_response("user_profiles/profile/change.html")
                ELSE Raise("UnboundLocalError")
    IN  [profiles |-> ps,
         trace    |-> << Ev("message", request_user, "Please correct the errors below."),
                         Return(resp) >>,
         response |-> resp]

\* lines 109-140
_user_change(ps, request_user, user, method, data) ==
    IF method = "POST"
    THEN IF profile_form_is_valid(data)
         THEN _user_change_valid(ps, request_user, user, data)
         ELSE _user_change_invalid(ps, request_user, user)
    ELSE LET resp == render_to_response("user_profiles/profile/change.html")
         IN  [profiles |-> ps, trace |-> << Return(resp) >>, response |-> resp]

\* lines 151-159
current_user_profile_change(ps, user, method, data) ==
    IF ~is_authenticated(user)
    THEN [profiles |-> ps, trace |-> login_required_redirect.trace,
          response |-> login_required_redirect.response]
    ELSE _user_change(ps, user, user, method, data)

-----------------------------------------------------------------------------
(* password_change and password_reset_confirm (views.py lines 168-195) *)

\* what a caller can pass as post_change_redirect / post_reset_redirect:
\* nothing, None, the empty string, or a URL
RedirectArgs == {"<absent>", "<None>", "", "/done/"}

\* the value kwargs.get(name) returns tests false
Falsy(arg) == arg \in {"<absent>", "<None>", ""}

\* lines 176-177 and 190-191 with the default set unconditionally
redirect_kwarg_always_default(arg, default) == default

\* lines 176-177 and 190-191: the redirect handed to the wrapped view
redirect_kwarg(arg, default) == IF Falsy(arg) THEN default ELSE arg

\* the contrib.auth views: they redirect to the given URL when the form was
\* posted and valid (and the reset link is good), else render their form
auth_views(name, redirect, method, form_valid, link_valid) ==
    IF method = "POST" /\ form_valid /\ link_valid
    THEN [trace  |-> << Ev("wrapped_call", 0, name), Ev("wrapped_kwarg", 0, redirect),
                        Ev("password_saved", 0, name) >>,
          result |-> HttpResponseRedirect(redirect)]
    ELSE [trace  |-> << Ev("wrapped_call", 0, name), Ev("wrapped_kwarg", 0, redirect) >>,
          result |-> render_to_response(name)]

\* lines 147-148 read into the password wrappers: the message is added
\* whatever the wrapped view returned
message_due_always(result) == TRUE

\* lines 179-180 and 193-194: isinstance(result, HttpResponseRedirect)
message_due(result) == result.kind = "redirect"

\* lines 178-181 and 192-195: call, message, return
wrap(name, redirect, method, form_valid, link_valid, user, message) ==
    LET w == auth_views(name, redirect, method, form_valid, link_valid)
    IN  [trace    |-> w.trace
                      \o << Ev("wrapped_result", 0, w.result.kind),
                            Ev("wrapped_target", 0, w.result.arg) >>
                      \o (IF message_due(w.result)
                          THEN << Ev("message", user, message) >> ELSE << >>)
                      \o << Return(w.result) >>,
         response |-> w.result]

\* lines 168-181; csrf_ok is whether @csrf_protect lets the request through
password_change(user, method, csrf_ok, form_valid, arg) ==
    IF method = "POST" /\ ~csrf_ok
    THEN LET resp == [kind |-> "forbidden", arg |-> "csrf"]
         IN  [trace |-> << Return(resp) >>, response |-> resp]
    ELSE IF ~is_authenticated(user)
    THEN login_required_redirect
    ELSE wrap("password_change", redirect_kwarg(arg, "current_user_detail"),
              method, form_valid, TRUE, user, "Your password was changed.")

\* lines 184-195
password_reset_confirm(user, method, link_valid, form_valid, arg) ==
    wrap("password_reset_confirm", redirect_kwarg(arg, "login"),
         method, form_valid, link_valid, user,
         "Your password has been set.  You may go ahead and log in now.")

-----------------------------------------------------------------------------
(* Actions: the profile and password views *)

Lookups ==
    {Lookup("id", id) : id \in (DOMAIN users) \cup {Max(DOMAIN users) + 1}}
        \cup {Lookup("malformed", Anonymous)}

ViewOutcome(o) ==
    /\ trace' = o.trace
    /\ response' = o.response
    /\ UNCHANGED <<PUBLIC, PUBLIC_WHEN_LOGGED_IN, users, codes>>

UserDetail ==
    \E user \in Requesters, lookup \in Lookups :
        /\ request' = [view |-> "user_detail", user |-> user, lookup |-> lookup]
        /\ ViewOutcome(user_detail(users, profiles, PUBLIC, PUBLIC_WHEN_LOGGED_IN,
                                   user, lookup))
        /\ UNCHANGED profiles

ProfileChangeGet ==
    \E user \in Requesters :
        LET o == current_user_profile_change(profiles, user, "GET", "none")
        IN  /\ request' = [view |-> "current_user_profile_change", user |-> user,
                           method |-> "GET", data |-> "none"]
            /\ ViewOutcome(o)
            /\ profiles' = o.profiles

ProfileChangePost ==
    \E user \in Requesters, data \in {"valid", "bad_profile"} :
        LET o == current_user_profile_change(profiles, user, "POST", data)
        IN  /\ request' = [view |-> "current_user_profile_change", user |-> user,
                           method |-> "POST", data |-> data]
            /\ ViewOutcome(o)
            /\ profiles' = o.profiles

PasswordChange ==
    \E user \in Requesters, method \in {"GET", "POST"}, csrf_ok \in BOOLEAN,
       form_valid \in BOOLEAN, arg \in RedirectArgs :
        /\ method = "GET" => (csrf_ok /\ ~form_valid)
        /\ ~csrf_ok => ~form_valid
        /\ request' = [view |-> "password_change", user |-> user, method |-> method,
                       csrf_ok |-> csrf_ok, form_valid |-> form_valid, arg |-> arg]
        /\ ViewOutcome(password_change(user, method, csrf_ok, form_valid, arg))
        /\ UNCHANGED profiles

PasswordResetConfirm ==
    \E user \in Requesters, method \in {"GET", "POST"}, link_valid \in BOOLEAN,
       form_valid \in BOOLEAN, arg \in RedirectArgs :
        /\ method = "GET" => ~form_valid
        /\ request' = [view |-> "password_reset_confirm", user |-> user,
                       method |-> method, link_valid |-> link_valid,
                       form_valid |-> form_valid, arg |-> arg]
        /\ ViewOutcome(password_reset_confirm(user, method, link_valid, form_valid, arg))
        /\ UNCHANGED profiles

\* a site in use, under any of the four settings
InitViews ==
    /\ PUBLIC \in BOOLEAN
    /\ PUBLIC_WHEN_LOGGED_IN \in BOOLEAN
    /\ users = SiteUsers
    /\ profiles = SiteProfiles
    /\ codes = << >>
    /\ request = [view |-> "none"]
    /\ trace = <<>>
    /\ response = NoResponse

NextViews ==
    UserDetail \/ ProfileChangeGet \/ ProfileChangePost \/ PasswordChange
        \/ PasswordResetConfirm

SpecViews == InitViews /\ [][NextViews]_vars

-----------------------------------------------------------------------------
(* Claims about the activation codes and the signup view (SpecSignup) *)

\* the row the last INSERT made
Newest(cs) == cs[Max(DOMAIN cs)]

\* this request reaches the profile form (lines 49-50) and on to the end
SignupReachesProfileForm ==
    /\ request.view = "signup"
    /\ ~is_authenticated(request.user)
    /\ request.method = "POST"
    /\ signup_form_is_valid(request.data)

KeysNonEmpty == \A pk \in DOMAIN codes : codes[pk].key # NoKey

KeyKept == \A pk \in (DOMAIN codes) \cap (DOMAIN codes') :
                codes'[pk].key = codes[pk].key

KeyAssigned ==
    (request'.view = "ActivationCode.save" /\ request'.pk = 0)
        => /\ DOMAIN codes' = (DOMAIN codes) \cup {Max(DOMAIN codes) + 1}
           /\ Newest(codes').key \in Tokens
           /\ (request'.key # NoKey => Newest(codes').key = request'.key)

\* C1: every stored ActivationCode has a non-empty key; save() of an instance
\* without a key stores it with a uuid4 token (and with the preset key when
\* it has one), and no save() changes the key of a stored row.
C1_KeyAssignedIfAbsent ==
    [](KeysNonEmpty) /\ [][KeyKept /\ KeyAssigned]_vars

\* C1 witness: the last operation saved a new instance that had no key, and
\* before it a stored row was there to be kept.
C1_Witness ==
    /\ request.view = "ActivationCode.save"
    /\ request.pk = 0
    /\ request.key = NoKey
    /\ Cardinality(DOMAIN codes) = 2
    /\ Newest(codes).key \in Tokens

\* C2: no two distinct stored ActivationCode rows have the same key (checked
\* on the behaviours without uuid4 collisions, where it fails all the same).
C2_KeysUnique ==
    \A p, q \in DOMAIN codes : p # q => codes[p].key # codes[q].key

\* C3: an ActivationCode is stored with activated = FALSE, its flag only ever
\* goes from FALSE to TRUE, and no step removes a stored row (the user
\* deletion of a failed signup included).
C3_Lifecycle ==
    [][ /\ \A pk \in DOMAIN codes :
              /\ pk \in DOMAIN codes'
              /\ codes[pk].activated => codes'[pk].activated
        /\ \A pk \in (DOMAIN codes') \ (DOMAIN codes) : ~codes'[pk].activated
      ]_vars

\* C3 witness: the signup view has just deleted a user whose profile form
\* failed, while an activated and a not yet activated code are stored.
C3_Witness ==
    /\ request.view = "signup"
    /\ response = Raise("Exception")
    /\ Count(trace, "user_deleted") = 1
    /\ \E pk \in DOMAIN codes : codes[pk].activated
    /\ \E pk \in DOMAIN codes : ~codes[pk].activated

\* C4: post_signup is sent exactly once when both forms validated and were
\* saved and not at all otherwise; it comes after the user save and the
\* profile save and before the redirect is returned, and the receiver calls
\* send_activation_link_to_user for the same new user with created=True.
C4_SignupOrder ==
    request.view = "signup" =>
        LET sent == Count(trace, "post_signup")
            i    == IndexOf(trace, "post_signup")
        IN  /\ sent = IF SignupReachesProfileForm /\ profile_form_is_valid(request.data)
                      THEN 1 ELSE 0
            /\ sent = 1 <=> (Count(trace, "user_saved") = 1
                               /\ Count(trace, "profile_saved") = 1)
            /\ sent = 1 =>
                /\ 0 < IndexOf(trace, "user_saved")
                /\ IndexOf(trace, "user_saved") < IndexOf(trace, "profile_saved")
                /\ IndexOf(trace, "profile_saved") < i
                /\ i + 1 < IndexOf(trace, "return")
                /\ IndexOf(trace, "return") = Len(trace)
                /\ response.kind = "redirect"
                /\ trace[i + 1] = Ev("send_activation_link_to_user",
                                     trace[i].user, "created=True")
                /\ trace[i].user = trace[IndexOf(trace, "user_saved")].user
                /\ trace[i].user = trace[IndexOf(trace, "profile_saved")].user
                /\ trace[i].user \in DOMAIN users
                /\ Count(trace, "send_activation_link_to_user") = 1

\* C4 witness: a signup request that sent post_signup.
C4_Witness ==
    /\ request.view = "signup"
    /\ Count(trace, "post_signup") = 1
    /\ response.kind = "redirect"

\* C6: a signup request that is not a POST, or whose signup form is invalid,
\* or that comes from an authenticated requester changes neither the users
\* nor the profiles, sends no post_signup and emits no message; from an
\* anonymous requester it renders the signup form.
C6_SignupFrame ==
    [][ (request'.view = "signup" /\ ~(SignupReachesProfileForm)')
            => /\ users' = users
               /\ profiles' = profiles
               /\ Count(trace', "post_signup") = 0
               /\ Messages(trace') = <<>>
               /\ ~is_authenticated(request'.user) => response'.kind = "render"
      ]_vars

\* C6 witness: an authenticated requester posted valid signup data and was
\* redirected.
C6_Witness ==
    /\ request.view = "signup"
    /\ is_authenticated(request.user)
    /\ request.method = "POST"
    /\ request.data = "valid"
    /\ response = HttpResponseRedirect("LOGIN_REDIRECT_URL")

\* C8: when the signup form validates and the profile form does not, the
\* just-created user is deleted and the handler raises, with no post_signup
\* and no message; and every stored user that signup created has a profile
\* saved from a valid profile form.
C8_SignupAllOrNothing ==
    /\ (SignupReachesProfileForm /\ ~profile_form_is_valid(request.data)) =>
            /\ response = Raise("Exception")
            /\ Count(trace, "user_saved") = 1
            /\ Count(trace, "user_deleted") = 1
            /\ trace[IndexOf(trace, "user_deleted")].user
                    = trace[IndexOf(trace, "user_saved")].user
            /\ trace[IndexOf(trace, "user_saved")].user \notin DOMAIN users
            /\ Count(trace, "post_signup") = 0
            /\ Messages(trace) = <<>>
    /\ \A u \in (DOMAIN users) \ (DOMAIN InitialUsers) :
            /\ u \in DOMAIN profiles
            /\ profile_form_is_valid(profiles[u])

\* C8 witness: a signup failed on the profile form after another had succeeded.
C8_Witness ==
    /\ SignupReachesProfileForm
    /\ ~profile_form_is_valid(request.data)
    /\ response = Raise("Exception")
    /\ (DOMAIN users) \ (DOMAIN InitialUsers) # {}

-----------------------------------------------------------------------------
(* Claims about the profile and password views (SpecViews) *)

\* one of the three grounds of lines 90-92 holds for the requester
Authorized(user) ==
    \/ PUBLIC
    \/ PUBLIC_WHEN_LOGGED_IN /\ user # Anonymous
    \/ /\ user \in DOMAIN users
       /\ users[user].is_staff
       /\ users[user].is_active /\ users[user].perm

\* C5: user_detail renders a profile only for a requester for whom PUBLIC is
\* set, or PUBLIC_WHEN_LOGGED_IN is set and who is authenticated, or who is
\* staff with auth.change_user; for every other requester it raises
\* PermissionDenied, so with both settings off nobody else sees a profile.
C5_UserDetailAuthorized ==
    request.view = "user_detail" =>
        /\ response.kind = "render" => Authorized(request.user)
        /\ Count(trace, "context") > 0 => Authorized(request.user)
        /\ ~Authorized(request.user) => response = Raise("PermissionDenied")
        /\ (~PUBLIC /\ ~PUBLIC_WHEN_LOGGED_IN
              /\ (request.user = Anonymous
                    \/ ~(users[request.user].is_staff /\ users[request.user].perm)))
            => response.kind # "render"

\* C5 witness: with both settings off a staff requester holding the
\* permission was shown a profile.
C5_Witness ==
    /\ request.view = "user_detail"
    /\ ~PUBLIC /\ ~PUBLIC_WHEN_LOGGED_IN
    /\ response.kind = "render"
    /\ Count(trace, "context") = 1

WrappedCalled == Count(trace, "wrapped_call") = 1

PasswordMessage ==
    IF request.view = "password_change"
    THEN "Your password was changed."
    ELSE "Your password has been set.  You may go ahead and log in now."

PasswordDefault ==
    IF request.view = "password_change" THEN "current_user_detail" ELSE "login"

\* C7: password_change and password_reset_confirm return what the wrapped
\* view returned and emit their message exactly when that is a redirect; a
\* redirect the caller supplied (a value that tests true) is the one handed
\* to the wrapped view, and the default is used only when none was supplied
\* (absent, None or empty).
C7_PasswordWrappers ==
    request.view \in {"password_change", "password_reset_confirm"} =>
        /\ request.view = "password_reset_confirm" => WrappedCalled
        /\ (request.view = "password_change" /\ request.user # Anonymous
              /\ (request.method = "GET" \/ request.csrf_ok)) => WrappedCalled
        /\ ~WrappedCalled => Messages(trace) = <<>>
        /\ WrappedCalled =>
            /\ response.kind = trace[IndexOf(trace, "wrapped_result")].arg
            /\ response.arg = trace[IndexOf(trace, "wrapped_target")].arg
            /\ response.kind \in {"redirect", "render"}
            /\ response.kind = "redirect" =>
                    /\ Len(Messages(trace)) = 1
                    /\ Messages(trace)[1].arg = PasswordMessage
            /\ response.kind # "redirect" => Messages(trace) = <<>>
            /\ request.arg \in {"/done/"} =>
                    trace[IndexOf(trace, "wrapped_kwarg")].arg = request.arg
            /\ request.arg \in {"<absent>", "<None>", ""} =>
                    trace[IndexOf(trace, "wrapped_kwarg")].arg = PasswordDefault
            /\ response.kind = "redirect" =>
                    response.arg = trace[IndexOf(trace, "wrapped_kwarg")].arg

\* C7 witness: a password change that redirected to the URL the caller gave.
C7_Witness ==
    /\ request.view = "password_change"
    /\ request.arg = "/done/"
    /\ response = HttpResponseRedirect("/done/")
    /\ Len(Messages(trace)) = 1

\* C9: a POST of invalid data to current_user_profile_change saves nothing,
\* emits 'Please correct the errors below.' and returns the re-rendered form,
\* whether or not the user has a profile row.
C9_InvalidChangeRerenders ==
    (/\ request.view = "current_user_profile_change"
     /\ request.user # Anonymous
     /\ request.method = "POST"
     /\ ~profile_form_is_valid(request.data))
        => /\ Count(trace, "profile_saved") = 0
           /\ Len(Messages(trace)) = 1
           /\ Messages(trace)[1].arg = "Please correct the errors below."
           /\ response = render_to_response("user_profiles/profile/change.html")

=============================================================================
